---- MODULE Spec2Model ----
(***************************************************************************)
(* Model of the go-storage key-value service (src/storage.go): the store,  *)
(* the file transaction logger (writer goroutine and replay goroutine),    *)
(* the startup replay loop of initializeTransactionLog, main, and the HTTP *)
(* handlers.  Strings are sequences of one-character strings so that the   *)
(* record format written by Fprintf and read back by Sscanf is modelled    *)
(* character by character.                                                 *)
(*                                                                         *)
(* Left out: a failed io.ReadAll of a request body (the handler answers    *)
(* 500 before it touches the store), a failed write that leaves part of a  *)
(* line in the file (WriterFail leaves the file as it was), and the wrap   *)
(* of the 64-bit sequence counter (sequences are naturals).                *)
(***************************************************************************)
EXTENDS Naturals, Sequences, FiniteSets, TLC

VARIABLES
    file,            \* transaction.log: the sequence of its lines (durable)
    store,           \* store.data: function from key to value
    logger,          \* the global logger: "nil" or "set"
    lastSequence,    \* l.lastSequence
    mpc,             \* main goroutine: boot, loop, run, ret, serve
    err,             \* initializeTransactionLog: local err ("nil" or an error)
    ok,              \* initializeTransactionLog: local ok
    initErr,         \* value returned by initializeTransactionLog ("none" before it returns)
    rpc,             \* replay goroutine: off, scan, send, closeErr, closeEv, done
    rpos,            \* number of lines the scanner has consumed
    rev,             \* replay goroutine: its local e
    outError,        \* outError channel buffer (capacity 1)
    outErrorClosed,  \* outError closed
    outEventClosed,  \* outEvent closed
    events,          \* l.events channel buffer (capacity 16); <<>> before Run
    errors,          \* l.errors channel buffer (capacity 1)
    wpc,             \* writer goroutine: off, run, stopped
    hpc,             \* per request handler: idle, put, putlog, get, del, delstore, dellog
    hreq,            \* per request handler: the request being served
    responses,       \* history: responses written, in order
    nreq,            \* history: number of requests accepted since the log was empty
    submitted,       \* history: events handed to WritePut/WriteDelete, in send order
    delivered,       \* history: events received from outEvent by the coordinator
    reported,        \* history: errors the replay goroutine put on outError
    readFailed,      \* history: the scanner hit a read failure in this process
    seqAtRun,        \* history: lastSequence when Run was called
    lenAtRun,        \* history: number of lines in the file when Run was called
    overlapped,      \* history: two requests were in flight at once in this process
    gen,             \* history: number of restarts so far
    prev,            \* history: facts about the previous process, recorded at restart
    applied,         \* history: the Put and Delete calls on the store, in call order
    returned         \* history: the error each of those calls returned

vars == <<file, store, logger, lastSequence, mpc, err, ok, initErr, rpc, rpos, rev,
          outError, outErrorClosed, outEventClosed, events, errors, wpc, hpc, hreq,
          responses, nreq, submitted, delivered, reported, readFailed, seqAtRun,
          lenAtRun, overlapped, gen, prev, applied, returned>>

-----------------------------------------------------------------------------
(* Bounds *)

MaxOps == 2          \* requests accepted over a whole behaviour of Spec
MaxRestarts == 1     \* process restarts in a behaviour of Spec
MaxLogLen == 2       \* lines of the initial log in SpecReplay
MaxLineSeq == 2      \* largest sequence number in a line of the initial log in SpecReplay
ReplayOps == 1       \* requests accepted after startup in SpecReplay
BPExtra == 2         \* requests beyond the queue capacity in SpecBP
MaxStoreOps == 3     \* calls of Put and Delete in SpecStore

(* Program constants *)

QueueCap == 16       \* make(chan Event, 16)
ErrorCap == 1        \* make(chan error, 1)
EventDelete == 1
EventPut == 2
MaxUint8 == 255      \* EventType is a byte

Handlers == {1, 2}

-----------------------------------------------------------------------------
(* Characters and strings *)

TAB == "\t"
SP == " "
Digits == <<"0", "1", "2", "3", "4", "5", "6", "7", "8", "9">>

IsSpace(c) == c \in {TAB, SP}
IsDigit(c) == \E d \in 1..10 : Digits[d] = c
DigitVal(c) == (CHOOSE d \in 1..10 : Digits[d] = c) - 1

RECURSIVE Dec(_)
\* fmt's %d of an unsigned integer
Dec(n) == IF n < 10 THEN <<Digits[n + 1]>> ELSE Dec(n \div 10) \o <<Digits[(n % 10) + 1]>>

RECURSIVE DecValue(_)
\* strconv.ParseUint(tok, 10, 64) on a string of digits
DecValue(ds) ==
    IF ds = <<>> THEN 0
    ELSE 10 * DecValue(SubSeq(ds, 1, Len(ds) - 1)) + DigitVal(ds[Len(ds)])

\* the element of a set of one element
Only(S) == CHOOSE r \in S : TRUE

\* first position >= p that holds no space (Len(s)+1 at end of input)
SpaceEnd(s, p) ==
    CHOOSE j \in p..(Len(s) + 1) :
        /\ \A k \in p..(j - 1) : IsSpace(s[k])
        /\ j = Len(s) + 1 \/ ~IsSpace(s[j])

\* the spaces from position i are skipped (i is worked out once)
SkipSpace(s, i) == Only({SpaceEnd(s, p) : p \in {i}})

\* first position >= i that holds no digit
DigitsEnd(s, i) ==
    CHOOSE j \in i..(Len(s) + 1) :
        /\ \A k \in i..(j - 1) : IsDigit(s[k])
        /\ j = Len(s) + 1 \/ ~IsDigit(s[j])

\* first position >= i that holds a space
TokenEnd(s, i) ==
    CHOOSE j \in i..(Len(s) + 1) :
        /\ \A k \in i..(j - 1) : ~IsSpace(s[k])
        /\ j = Len(s) + 1 \/ IsSpace(s[j])

\* %d at position j, the first past the spaces, ending before position k
UintAt(s, j, k) ==
    IF j > Len(s) \/ k = j THEN [ok |-> FALSE, val |-> 0, next |-> j]
    ELSE [ok |-> TRUE, val |-> DecValue(SubSeq(s, j, k - 1)), next |-> k]

\* %d into an unsigned integer: skip spaces, fail at end of input, fail when no
\* digit follows
ScanUint(s, i) ==
    Only({ Only({ UintAt(s, j, k) : k \in {IF j > Len(s) THEN j ELSE DigitsEnd(s, j)} })
           : j \in {SkipSpace(s, i)} })

\* %s at position j, the first past the spaces, ending before position k
StringAt(s, j, k) ==
    IF j > Len(s) THEN [ok |-> FALSE, val |-> <<>>, next |-> j]
    ELSE [ok |-> TRUE, val |-> SubSeq(s, j, k - 1), next |-> k]

\* %s: skip spaces, fail at end of input, take the run of non-space characters
ScanString(s, i) ==
    Only({ StringAt(s, j, IF j > Len(s) THEN j ELSE TokenEnd(s, j)) : j \in {SkipSpace(s, i)} })

\* a tab in the format at position p: the input is at its end or continues with
\* a space character; all the spaces that follow are consumed
FormatSpaceAt(s, p) ==
    IF p > Len(s) THEN [ok |-> TRUE, next |-> p]
    ELSE IF IsSpace(s[p]) THEN [ok |-> TRUE, next |-> SkipSpace(s, p)]
    ELSE [ok |-> FALSE, next |-> p]

ScanFormatSpace(s, i) == Only({ FormatSpaceAt(s, p) : p \in {i} })

-----------------------------------------------------------------------------
(* Events and the record format *)

Event(seq, type, key, value) ==
    [Sequence |-> seq, EventType |-> type, Key |-> key, Value |-> value]

ZeroEvent == Event(0, 0, <<>>, <<>>)

\* fmt.Fprintf(l.file, "%d\t%d\t%s\t%s\n", ...): the line without its newline
FormatLine(seq, e) ==
    Dec(seq) \o <<TAB>> \o Dec(e.EventType) \o <<TAB>> \o e.Key \o <<TAB>> \o e.Value

\* fmt.Sscanf(line, "%d\t%d\t%s\t%s", &e.Sequence, &e.EventType, &e.Key, &e.Value):
\* err is TRUE when Sscanf returns an error; input left after the last verb is ignored
Sscanf(line) ==
    LET a  == ScanUint(line, 1)
        s1 == ScanFormatSpace(line, a.next)
        b  == ScanUint(line, s1.next)
        s2 == ScanFormatSpace(line, b.next)
        c  == ScanString(line, s2.next)
        s3 == ScanFormatSpace(line, c.next)
        d  == ScanString(line, s3.next)
    IN  IF /\ a.ok /\ s1.ok
           /\ b.ok /\ b.val <= MaxUint8 /\ s2.ok
           /\ c.ok /\ s3.ok
           /\ d.ok
        THEN [err |-> FALSE, e |-> Event(a.val, b.val, c.val, d.val)]
        ELSE [err |-> TRUE, e |-> ZeroEvent]

-----------------------------------------------------------------------------
(* Storage functions *)

EmptyStore == <<>>

\* Get: ok is FALSE for ErrorNoSuchKey
Get(m, key) ==
    IF key \in DOMAIN m THEN [ok |-> TRUE, value |-> m[key]]
    ELSE [ok |-> FALSE, value |-> <<>>]

\* mutant: a key already present keeps its value
PutIfAbsent(m, key, value) ==
    [k \in (DOMAIN m) \cup {key} |-> IF k \in DOMAIN m THEN m[k] ELSE value]

\* store.data[key] = value
Put(m, key, value) ==
    [k \in (DOMAIN m) \cup {key} |-> IF k = key THEN value ELSE m[k]]

\* Put: return nil
PutError(m, key, value) == "nil"

\* mutant: the key stays, with the empty string as its value
DeleteToEmpty(m, key) == [k \in (DOMAIN m) \cup {key} |-> IF k = key THEN <<>> ELSE m[k]]

\* delete(store.data, key)
Delete(m, key) == [k \in (DOMAIN m) \ {key} |-> m[k]]

\* Delete: return nil
DeleteError(m, key) == "nil"

\* the call history after the call, if any, that event e leads to
Called(h, e) ==
    IF e.EventType \in {EventDelete, EventPut}
    THEN Append(h, Event(0, e.EventType, e.Key, e.Value))
    ELSE h

\* the errors returned so far, after the call, if any, that event e leads to on
\* the store m
Returned(rs, m, e) ==
    IF e.EventType = EventDelete THEN Append(rs, DeleteError(m, e.Key))
    ELSE IF e.EventType = EventPut THEN Append(rs, PutError(m, e.Key, e.Value))
    ELSE rs

\* the switch of the replay loop: only Delete and Put events touch the store
Apply(m, e) ==
    IF e.EventType = EventDelete THEN Delete(m, e.Key)
    ELSE IF e.EventType = EventPut THEN Put(m, e.Key, e.Value)
    ELSE m

-----------------------------------------------------------------------------
(* Requests *)

Keys == {<<"a">>, <<"b">>}
Values == {<<"1">>, <<"2">>, <<>>, <<"1", SP, "2">>}

PutRequest(k, v) == [key |-> k, value |-> v, op |-> "put"]
DeleteRequest(k) == [key |-> k, value |-> <<>>, op |-> "del"]
GetRequest(k) == [key |-> k, value |-> <<>>, op |-> "get"]

Requests ==
    {PutRequest(k, v) : k \in Keys, v \in Values}
        \cup {DeleteRequest(k) : k \in Keys}
        \cup {GetRequest(k) : k \in Keys}

NoRequest == [key |-> <<>>, value |-> <<>>, op |-> "none"]

-----------------------------------------------------------------------------
(* Channels *)

\* mutant: the send never waits for room
ChanSendAlways(q) == TRUE

\* a send on l.events proceeds only while the buffer has room
ChanSendReady(q) == Len(q) < QueueCap

\* mutant: the event is queued ahead of the ones already queued
ChanSendFront(q, e) == <<e>> \o q

\* the event joins the buffer behind the ones already queued
ChanSend(q, e) == Append(q, e)

\* range over the channel: the oldest queued event
ChanRecv(q) == Head(q)

\* l.lastSequence++
NextSequence(n) == n + 1

\* mutant: the writer goes on to the next event after a failed write
AfterFailureRetry == "run"

\* errors <- err; return: the writer goroutine ends
AfterFailure == "stopped"

-----------------------------------------------------------------------------
(* Initial states *)

NoPrev == [store |-> EmptyStore, initErr |-> "none", submitted |-> <<>>,
           readFailed |-> FALSE, settled |-> FALSE, sequential |-> FALSE]

\* a process that has just started, over the log file f
Started(f) ==
    /\ file = f
    /\ store = EmptyStore
    /\ logger = "nil"
    /\ lastSequence = 0
    /\ mpc = "boot"
    /\ err = "nil"
    /\ ok = TRUE
    /\ initErr = "none"
    /\ rpc = "off"
    /\ rpos = 0
    /\ rev = ZeroEvent
    /\ outError = <<>>
    /\ outErrorClosed = FALSE
    /\ outEventClosed = FALSE
    /\ events = <<>>
    /\ errors = <<>>
    /\ wpc = "off"
    /\ hpc = [h \in Handlers |-> "idle"]
    /\ hreq = [h \in Handlers |-> NoRequest]
    /\ responses = <<>>
    /\ nreq = 0
    /\ submitted = <<>>
    /\ delivered = <<>>
    /\ reported = <<>>
    /\ readFailed = FALSE
    /\ seqAtRun = 0
    /\ lenAtRun = 0
    /\ overlapped = FALSE
    /\ gen = 0
    /\ prev = NoPrev
    /\ applied = <<>>
    /\ returned = <<>>

Init == Started(<<>>)

-----------------------------------------------------------------------------
(* main and initializeTransactionLog *)

storeVars == <<store>>
loopVars == <<err, ok>>
replayVars == <<rpc, rpos, rev, outError, outErrorClosed, outEventClosed>>
writerVars == <<events, errors, wpc>>
handlerVars == <<hpc, hreq, responses, nreq, overlapped>>
replayHist == <<delivered, reported, readFailed>>
runHist == <<seqAtRun, lenAtRun>>
genHist == <<gen, prev>>
storeHist == <<applied, returned>>

\* NewFileTransactionLogger fails: initializeTransactionLog returns the error
OpenFail ==
    /\ mpc = "boot"
    /\ initErr' = "open"
    /\ mpc' = "ret"
    /\ UNCHANGED <<file, store, logger, lastSequence, loopVars, replayVars, writerVars,
                   handlerVars, submitted, replayHist, runHist, genHist, storeHist>>

\* NewFileTransactionLogger succeeds; ReadEvents starts the replay goroutine
OpenOk ==
    /\ mpc = "boot"
    /\ logger' = "set"
    /\ rpc' = "scan"
    /\ mpc' = "loop"
    /\ UNCHANGED <<file, store, lastSequence, loopVars, initErr, rpos, rev, outError,
                   outErrorClosed, outEventClosed, writerVars, handlerVars, submitted,
                   replayHist, runHist, genHist, storeHist>>

\* mutant: the loop is left after the first receive
LoopOnce(o, e) == "run"

\* for ok && err == nil
LoopOrRun(o, e) == IF o /\ e = "nil" THEN "loop" ELSE "run"

\* case err, ok = <-errors
SelectError ==
    /\ mpc = "loop"
    /\ outError # <<>> \/ outErrorClosed
    /\ IF outError # <<>>
       THEN /\ err' = Head(outError)
            /\ ok' = TRUE
            /\ outError' = Tail(outError)
       ELSE /\ err' = "nil"
            /\ ok' = FALSE
            /\ UNCHANGED outError
    /\ mpc' = LoopOrRun(ok', err')
    /\ UNCHANGED <<file, store, logger, lastSequence, initErr, rpc, rpos, rev,
                   outErrorClosed, outEventClosed, writerVars, handlerVars, submitted,
                   replayHist, runHist, genHist, storeHist>>

\* case e, ok = <-events, with the switch on e.EventType
SelectEvent ==
    /\ mpc = "loop"
    /\ rpc = "send" \/ outEventClosed
    /\ IF rpc = "send"
       THEN /\ store' = Apply(store, rev)
            /\ applied' = Called(applied, rev)
            /\ returned' = Returned(returned, store, rev)
            /\ ok' = TRUE
            /\ rpc' = "scan"
            /\ delivered' = Append(delivered, rev)
       ELSE /\ store' = Apply(store, ZeroEvent)
            /\ applied' = Called(applied, ZeroEvent)
            /\ returned' = Returned(returned, store, ZeroEvent)
            /\ ok' = FALSE
            /\ UNCHANGED <<rpc, delivered>>
    /\ mpc' = LoopOrRun(ok', err)
    /\ UNCHANGED <<file, logger, lastSequence, err, initErr, rpos, rev, outError,
                   outErrorClosed, outEventClosed, writerVars, handlerVars, submitted,
                   reported, readFailed, runHist, genHist>>

\* logger.Run() and return err
Run ==
    /\ mpc = "run"
    /\ events' = <<>>
    /\ errors' = <<>>
    /\ wpc' = "run"
    /\ seqAtRun' = lastSequence
    /\ lenAtRun' = Len(file)
    /\ initErr' = err
    /\ mpc' = "ret"
    /\ UNCHANGED <<file, store, logger, lastSequence, loopVars, replayVars, handlerVars,
                   submitted, replayHist, genHist, storeHist>>

\* main drops the result of initializeTransactionLog and serves
Serve ==
    /\ mpc = "ret"
    /\ mpc' = "serve"
    /\ UNCHANGED <<file, store, logger, lastSequence, loopVars, initErr, replayVars,
                   writerVars, handlerVars, submitted, replayHist, runHist, genHist, storeHist>>

-----------------------------------------------------------------------------
(* ReadEvents: the replay goroutine *)

\* mutant: an equal sequence passes the check
OutOfSequenceStrict(last, seq) == last > seq

\* if l.lastSequence >= e.Sequence
OutOfSequence(last, seq) == last >= seq

\* mutant: the sequence read is not recorded
Forget(last, seq) == last

\* l.lastSequence = e.Sequence
Remember(last, seq) == seq

\* mutant: the next line is scanned while the last event still waits for its
\* receiver
ScanAhead(pc) == pc \in {"scan", "send"}

\* scanner.Scan() is called at the top of the loop: at the start, and after the
\* send on the unbuffered outEvent has met its receiver
ScanReady(pc) == pc = "scan"

\* one pass of the scanner loop: parse the next line, check its sequence, and
\* either report an error or remember the sequence and offer the event
ReplayScan ==
    /\ ScanReady(rpc)
    /\ rpos < Len(file)
    /\ LET r == Sscanf(file[rpos + 1])
       IN  IF r.err
           THEN /\ outError' = Append(outError, "parse")
                /\ reported' = Append(reported, "parse")
                /\ rpc' = "closeErr"
                /\ UNCHANGED <<lastSequence, rev>>
           ELSE IF OutOfSequence(lastSequence, r.e.Sequence)
           THEN /\ outError' = Append(outError, "sequence")
                /\ reported' = Append(reported, "sequence")
                /\ rpc' = "closeErr"
                /\ UNCHANGED <<lastSequence, rev>>
           ELSE /\ lastSequence' = Remember(lastSequence, r.e.Sequence)
                /\ rev' = r.e
                /\ rpc' = "send"
                /\ UNCHANGED <<outError, reported>>
    /\ rpos' = rpos + 1
    /\ UNCHANGED <<file, store, logger, mpc, loopVars, initErr, outErrorClosed,
                   outEventClosed, writerVars, handlerVars, submitted, delivered,
                   readFailed, runHist, genHist, storeHist>>

\* scanner.Scan() returns false at the end of the file and scanner.Err() is nil
ReplayEOF ==
    /\ rpc = "scan"
    /\ rpos = Len(file)
    /\ rpc' = "closeErr"
    /\ UNCHANGED <<file, store, logger, lastSequence, mpc, loopVars, initErr, rpos, rev,
                   outError, outErrorClosed, outEventClosed, writerVars, handlerVars,
                   submitted, replayHist, runHist, genHist, storeHist>>

\* scanner.Scan() returns false because the read failed: scanner.Err() is reported
ReplayReadFail ==
    /\ rpc = "scan"
    /\ outError' = Append(outError, "read")
    /\ reported' = Append(reported, "read")
    /\ readFailed' = TRUE
    /\ rpc' = "closeErr"
    /\ UNCHANGED <<file, store, logger, lastSequence, mpc, loopVars, initErr, rpos, rev,
                   outErrorClosed, outEventClosed, writerVars, handlerVars, submitted,
                   delivered, runHist, genHist, storeHist>>

\* defer close(outError) runs first
ReplayCloseError ==
    /\ rpc = "closeErr"
    /\ outErrorClosed' = TRUE
    /\ rpc' = "closeEv"
    /\ UNCHANGED <<file, store, logger, lastSequence, mpc, loopVars, initErr, rpos, rev,
                   outError, outEventClosed, writerVars, handlerVars, submitted,
                   replayHist, runHist, genHist, storeHist>>

\* defer close(outEvent) runs last
ReplayCloseEvent ==
    /\ rpc = "closeEv"
    /\ outEventClosed' = TRUE
    /\ rpc' = "done"
    /\ UNCHANGED <<file, store, logger, lastSequence, mpc, loopVars, initErr, rpos, rev,
                   outError, outErrorClosed, writerVars, handlerVars, submitted,
                   replayHist, runHist, genHist, storeHist>>

-----------------------------------------------------------------------------
(* Run: the writer goroutine *)

\* for e := range events: the write of the next event succeeds
WriterWrite ==
    /\ wpc = "run"
    /\ events # <<>>
    /\ lastSequence' = NextSequence(lastSequence)
    /\ file' = Append(file, FormatLine(lastSequence', ChanRecv(events)))
    /\ events' = Tail(events)
    /\ UNCHANGED <<store, logger, mpc, loopVars, initErr, replayVars, errors, wpc,
                   handlerVars, submitted, replayHist, runHist, genHist, storeHist>>

\* the write fails (nothing reaches the file): errors <- err; return
WriterFail ==
    /\ wpc = "run"
    /\ events # <<>>
    /\ lastSequence' = NextSequence(lastSequence)
    /\ events' = Tail(events)
    /\ errors' = Append(errors, "write")
    /\ wpc' = AfterFailure
    /\ UNCHANGED <<file, store, logger, mpc, loopVars, initErr, replayVars, handlerVars,
                   submitted, replayHist, runHist, genHist, storeHist>>

-----------------------------------------------------------------------------
(* HTTP handlers *)

Respond(h, code, body) ==
    responses' = Append(responses, [code |-> code, body |-> body, req |-> hreq[h]])

\* the router hands request r to a handler goroutine
Accept(h, r, max) ==
    /\ mpc = "serve"
    /\ hpc[h] = "idle"
    /\ nreq < max
    /\ nreq' = nreq + 1
    /\ hreq' = [hreq EXCEPT ![h] = r]
    /\ hpc' = [hpc EXCEPT ![h] = r.op]
    /\ overlapped' = (overlapped \/ \E g \in Handlers : hpc[g] # "idle")
    /\ UNCHANGED <<file, store, logger, lastSequence, mpc, loopVars, initErr, replayVars,
                   writerVars, responses, submitted, replayHist, runHist, genHist, storeHist>>

\* keyValuePutHandler: err = Put(key, string(value))
PutStore(h) ==
    /\ hpc[h] = "put"
    /\ store' = Put(store, hreq[h].key, hreq[h].value)
    /\ applied' = Called(applied, Event(0, EventPut, hreq[h].key, hreq[h].value))
    /\ returned' = Append(returned, PutError(store, hreq[h].key, hreq[h].value))
    /\ hpc' = [hpc EXCEPT ![h] = "putlog"]
    /\ UNCHANGED <<file, logger, lastSequence, mpc, loopVars, initErr, replayVars,
                   writerVars, hreq, responses, nreq, overlapped, submitted, replayHist,
                   runHist, genHist>>

\* a call of WritePut or WriteDelete and the response after it; on a nil logger
\* the call panics and the request ends without a response
Write(h, e, code) ==
    /\ IF logger = "nil"
       THEN /\ Respond(h, "panic", <<>>)
            /\ UNCHANGED <<events, submitted>>
       ELSE /\ ChanSendReady(events)
            /\ events' = ChanSend(events, e)
            /\ submitted' = Append(submitted, e)
            /\ Respond(h, code, <<>>)
    /\ hpc' = [hpc EXCEPT ![h] = "idle"]
    /\ UNCHANGED <<file, store, logger, lastSequence, mpc, loopVars, initErr, replayVars,
                   errors, wpc, hreq, nreq, overlapped, replayHist, runHist, genHist, storeHist>>

\* keyValuePutHandler: logger.WritePut(key, string(value)); 201
WritePut(h) ==
    /\ hpc[h] = "putlog"
    /\ Write(h, Event(0, EventPut, hreq[h].key, hreq[h].value), "201")

\* keyValueGetHandler
GetServe(h) ==
    /\ hpc[h] = "get"
    /\ LET g == Get(store, hreq[h].key)
       IN  IF g.ok THEN Respond(h, "200", g.value) ELSE Respond(h, "404", <<>>)
    /\ hpc' = [hpc EXCEPT ![h] = "idle"]
    /\ UNCHANGED <<file, store, logger, lastSequence, mpc, loopVars, initErr, replayVars,
                   writerVars, hreq, nreq, overlapped, submitted, replayHist, runHist,
                   genHist, storeHist>>

\* keyValueDeleteHandler: the Get that answers 404 for an absent key
DeleteGet(h) ==
    /\ hpc[h] = "del"
    /\ IF Get(store, hreq[h].key).ok
       THEN /\ hpc' = [hpc EXCEPT ![h] = "delstore"]
            /\ UNCHANGED responses
       ELSE /\ hpc' = [hpc EXCEPT ![h] = "idle"]
            /\ Respond(h, "404", <<>>)
    /\ UNCHANGED <<file, store, logger, lastSequence, mpc, loopVars, initErr, replayVars,
                   writerVars, hreq, nreq, overlapped, submitted, replayHist, runHist,
                   genHist, storeHist>>

\* keyValueDeleteHandler: err := Delete(key)
DeleteStore(h) ==
    /\ hpc[h] = "delstore"
    /\ store' = Delete(store, hreq[h].key)
    /\ applied' = Called(applied, Event(0, EventDelete, hreq[h].key, <<>>))
    /\ returned' = Append(returned, DeleteError(store, hreq[h].key))
    /\ hpc' = [hpc EXCEPT ![h] = "dellog"]
    /\ UNCHANGED <<file, logger, lastSequence, mpc, loopVars, initErr, replayVars,
                   writerVars, hreq, responses, nreq, overlapped, submitted, replayHist,
                   runHist, genHist>>

\* keyValueDeleteHandler: logger.WriteDelete(key); 200
WriteDelete(h) ==
    /\ hpc[h] = "dellog"
    /\ Write(h, Event(0, EventDelete, hreq[h].key, <<>>), "200")

-----------------------------------------------------------------------------
(* Process restart *)

\* every request has been answered and the writer has written all it was given
Settled ==
    /\ \A h \in Handlers : hpc[h] = "idle"
    /\ events = <<>>
    /\ wpc = "run"

\* the process ends and a new one starts over the same file; everything but the
\* file is lost
Restart ==
    /\ mpc = "serve"
    /\ gen < MaxRestarts
    /\ gen' = gen + 1
    /\ prev' = [store |-> store, initErr |-> initErr, submitted |-> submitted,
                readFailed |-> readFailed, settled |-> Settled,
                sequential |-> ~overlapped]
    /\ store' = EmptyStore
    /\ logger' = "nil"
    /\ lastSequence' = 0
    /\ mpc' = "boot"
    /\ err' = "nil"
    /\ ok' = TRUE
    /\ initErr' = "none"
    /\ rpc' = "off"
    /\ rpos' = 0
    /\ rev' = ZeroEvent
    /\ outError' = <<>>
    /\ outErrorClosed' = FALSE
    /\ outEventClosed' = FALSE
    /\ events' = <<>>
    /\ errors' = <<>>
    /\ wpc' = "off"
    /\ hpc' = [h \in Handlers |-> "idle"]
    /\ hreq' = [h \in Handlers |-> NoRequest]
    /\ responses' = <<>>
    /\ submitted' = <<>>
    /\ delivered' = <<>>
    /\ reported' = <<>>
    /\ readFailed' = FALSE
    /\ seqAtRun' = 0
    /\ lenAtRun' = 0
    /\ overlapped' = FALSE
    /\ applied' = <<>>
    /\ returned' = <<>>
    /\ UNCHANGED <<file, nreq>>

-----------------------------------------------------------------------------
(* Specifications *)

Startup == OpenFail \/ OpenOk \/ SelectError \/ SelectEvent \/ Run \/ Serve

Replayer ==
    ReplayScan \/ ReplayEOF \/ ReplayReadFail \/ ReplayCloseError \/ ReplayCloseEvent

Writer == WriterWrite \/ WriterFail

Handle(h) ==
    PutStore(h) \/ WritePut(h) \/ GetServe(h) \/ DeleteGet(h) \/ DeleteStore(h)
        \/ WriteDelete(h)

\* the service from an empty log, with restarts
Next ==
    \/ Startup
    \/ Replayer
    \/ Writer
    \/ \E h \in Handlers : (\E r \in Requests : Accept(h, r, MaxOps)) \/ Handle(h)
    \/ Restart

Spec == Init /\ [][Next]_vars

-----------------------------------------------------------------------------
(* Startup over an arbitrary log file, followed by put requests served one at *)
(* a time                                                                    *)

\* events of the lines: a Put, a Delete that carries a value, and a Delete as the
\* writer produces it (no value)
LineEvents ==
    { Event(0, EventPut, <<"a">>, <<"1">>),
      Event(0, EventDelete, <<"a">>, <<"1">>),
      Event(0, EventDelete, <<"a">>, <<>>) }

\* lines in the record format, with sequences from 0
RecordLines == {FormatLine(n, e) : n \in 0..MaxLineSeq, e \in LineEvents}

\* a non-numeric sequence; a missing field; a missing field after a key that
\* holds a space
OtherLines ==
    { <<"a", TAB, "2", TAB, "a", TAB, "1">>,
      <<"2", TAB, "2", TAB, "a">>,
      <<"9", TAB, "2", TAB, "a", SP, "b">> }

LogLines == RecordLines \cup OtherLines

RECURSIVE Logs(_)
Logs(n) ==
    IF n = 0 THEN {<<>>}
    ELSE Logs(n - 1) \cup {Append(f, l) : f \in {g \in Logs(n - 1) : Len(g) = n - 1}, l \in LogLines}

InitReplay == \E f \in Logs(MaxLogLen) : Started(f)

NextReplay ==
    \/ Startup
    \/ Replayer
    \/ Writer
    \/ Accept(1, PutRequest(<<"b">>, <<"2">>), ReplayOps)
    \/ PutStore(1)
    \/ WritePut(1)

SpecReplay == InitReplay /\ [][NextReplay]_vars

\* startup alone, to the point where main serves, with main and the replay
\* goroutine each taking a step when they can
NextStartup == Startup \/ Replayer

FairReplay == WF_vars(Startup) /\ WF_vars(Replayer)

SpecReplayFair == InitReplay /\ [][NextStartup]_vars /\ FairReplay

-----------------------------------------------------------------------------
(* The writer under load: a fixed stream of requests longer than the queue *)

\* the n-th request of the stream: the same put until the queue is almost full,
\* then puts that differ from their neighbours
BPRequest(n) ==
    IF n < QueueCap - 1 THEN PutRequest(<<"a">>, <<"1">>)
    ELSE IF n % 2 = 1 THEN PutRequest(<<"b">>, <<"2">>)
    ELSE PutRequest(<<"a">>, <<"2">>)

\* logs a clean startup replays: empty, one line, two lines
BPLogs ==
    { <<>>,
      <<FormatLine(1, Event(0, EventPut, <<"a">>, <<"1">>))>>,
      <<FormatLine(1, Event(0, EventPut, <<"a">>, <<"1">>)),
        FormatLine(2, Event(0, EventPut, <<"b">>, <<"1">>))>> }

InitBP == \E f \in BPLogs : Started(f)

NextBP ==
    \/ OpenOk \/ SelectError \/ SelectEvent \/ Run \/ Serve
    \/ ReplayScan \/ ReplayEOF \/ ReplayCloseError \/ ReplayCloseEvent
    \/ WriterWrite
    \/ \E h \in Handlers :
        \/ Accept(h, BPRequest(nreq), QueueCap + BPExtra)
        \/ PutStore(h) \/ WritePut(h)

SpecBP == InitBP /\ [][NextBP]_vars

-----------------------------------------------------------------------------
(* The writer under load with a write that may fail: requests served one at a *)
(* time, more of them than the queue holds, every goroutine scheduled fairly  *)

\* the n-th request of the stream: the puts of SpecBP with deletes among them
FailRequest(n) == IF n % 4 = 1 THEN DeleteRequest(<<"a">>) ELSE BPRequest(n)

InitFail == \E f \in BPLogs : Started(f)

NextFail ==
    \/ OpenOk \/ SelectError \/ SelectEvent \/ Run \/ Serve
    \/ ReplayScan \/ ReplayEOF \/ ReplayCloseError \/ ReplayCloseEvent
    \/ WriterWrite \/ WriterFail
    \/ Accept(1, FailRequest(nreq), QueueCap + BPExtra)
    \/ PutStore(1) \/ WritePut(1)
    \/ DeleteGet(1) \/ DeleteStore(1) \/ WriteDelete(1)

\* every goroutine that can take a step eventually takes one: main, the replay
\* goroutine, the writer goroutine and the request handler
FairFail ==
    /\ WF_vars(OpenOk \/ SelectError \/ SelectEvent \/ Run \/ Serve)
    /\ WF_vars(Replayer)
    /\ WF_vars(Writer)
    /\ WF_vars(Handle(1))

SpecFail == InitFail /\ [][NextFail]_vars /\ FairFail

-----------------------------------------------------------------------------
(* The storage functions alone: any calls of Put and Delete on an empty store *)

\* one call of Put or Delete (the call event e stands for), outside any handler
StoreCall(e) ==
    /\ Len(applied) < MaxStoreOps
    /\ store' = Apply(store, e)
    /\ applied' = Called(applied, e)
    /\ returned' = Returned(returned, store, e)
    /\ UNCHANGED <<file, logger, lastSequence, mpc, loopVars, initErr, replayVars,
                   writerVars, handlerVars, submitted, replayHist, runHist, genHist>>

StorePut(k, v) == StoreCall(Event(0, EventPut, k, v))

StoreDelete(k) == StoreCall(Event(0, EventDelete, k, <<>>))

InitStore == Started(<<>>)

NextStore == \E k \in Keys : (\E v \in Values : StorePut(k, v)) \/ StoreDelete(k)

SpecStore == InitStore /\ [][NextStore]_vars

-----------------------------------------------------------------------------
(* Properties *)

\* the events of a sequence of submissions as the writer numbers them from n + 1
Stamped(n, es) ==
    [i \in 1..Len(es) |-> Event(n + i, es[i].EventType, es[i].Key, es[i].Value)]

\* the sequence number a line of the file starts with
LineSequence(line) == ScanUint(line, 1).val

\* the line the writer produces for the k-th submission after activation
WrittenLine(k) == FormatLine(seqAtRun + k, submitted[k])

\* a value that is one word: not empty and without a space
PlainValue(v) == v # <<>> /\ \A i \in 1..Len(v) : ~IsSpace(v[i])

\* the first process ran from the empty log, answered every request and wrote
\* every event, the Put events with one-word values; this is the process started
\* after it, whose replay goroutine has finished; no read of the file failed
ReplayedAfterCleanRun ==
    /\ gen = 1
    /\ prev.settled
    /\ ~prev.readFailed
    /\ \A i \in 1..Len(prev.submitted) :
        prev.submitted[i].EventType = EventPut => PlainValue(prev.submitted[i].Value)
    /\ logger = "set"
    /\ rpc = "done"
    /\ ~readFailed

\* C1: round trip. After events were submitted to a writer on an empty log and
\* the writer has written them all, ReadEvents over the file delivers exactly
\* those events, in submission order, numbered 1..N, with the same kind, key and
\* value, and reports no error.
C1_RoundTrip ==
    ReplayedAfterCleanRun =>
        /\ delivered = Stamped(0, prev.submitted)
        /\ reported = <<>>

\* C2: restart reconstruction. After requests served one after another on a
\* fresh store and an empty log, and once the writer has written every event,
\* the startup replay of a new process rebuilds the store the old process had
\* and initializeTransactionLog returns nil.
C2_RestartRebuildsStore ==
    (ReplayedAfterCleanRun /\ prev.sequential /\ mpc = "ret") =>
        /\ store = prev.store
        /\ initErr = "nil"

\* C3: starting from an empty log, through submissions and restarts (and with
\* no read failure in the running process or the one before it), the sequence
\* numbers of the lines of the file are strictly increasing.
C3_SequencesIncrease ==
    (~readFailed /\ ~prev.readFailed) =>
        \A i \in 1..Len(file) : \A j \in 1..Len(file) :
            i < j => LineSequence(file[i]) < LineSequence(file[j])

\* C4: when initializeTransactionLog has returned an error, the writer is not
\* activated and no request is answered by the process.
C4_FailedStartupDoesNotServe ==
    initErr \notin {"none", "nil"} =>
        /\ wpc = "off"
        /\ responses = <<>>
        /\ \A h \in Handlers : hpc[h] = "idle"

\* C5: once the replay goroutine has put an error on its error stream,
\* initializeTransactionLog returns that error, never nil.
C5_ReplayErrorReturned ==
    (reported # <<>> /\ initErr # "none") => initErr = reported[1]

\* C6: the lines appended since activation are, in order, the first events
\* that entered the queue, the k-th with sequence (lastSequence at activation)
\* + k; the events still queued are the submissions that follow them, in order.
C6_DurableOrderIsSubmissionOrder ==
    wpc # "off" =>
        LET n == Len(file) - lenAtRun
            d == Len(submitted) - Len(events)
        IN  /\ n <= d
            /\ d <= n + 1
            /\ \A k \in 1..n : file[lenAtRun + k] = WrittenLine(k)
            /\ \A k \in 1..Len(events) : events[k] = submitted[d + k]

\* C6 witness: after a replay that left lastSequence above 0, requests that
\* overlapped have had their events written, two neighbours among them
\* differing in key or value
C6_Witness ==
    /\ seqAtRun > 0
    /\ overlapped
    /\ \E k \in 2..(Len(file) - lenAtRun) : submitted[k] # submitted[k - 1]

\* what Sscanf makes of each line of the file
Parsed == [j \in 1..Len(file) |-> Sscanf(file[j])]

\* the first n lines all parse
AllParse(P, n) == \A j \in 1..n : ~P[j].err

\* the events of the first n lines
EventsOf(P, n) == [j \in 1..n |-> P[j].e]

\* lines 1..n have strictly increasing sequences, the first above 0
Ascending(P, n) ==
    /\ n >= 1 => P[1].e.Sequence > 0
    /\ \A j \in 2..n : P[j - 1].e.Sequence < P[j].e.Sequence

\* the replay goroutine reported one sequence error and closed both streams
\* after delivering the events of the first n lines
StoppedAfter(P, n) ==
    /\ delivered = EventsOf(P, n)
    /\ reported = <<"sequence">>
    /\ outErrorClosed
    /\ outEventClosed

\* C7 as stated: line i parses, as do the lines before it, and its sequence is
\* at most that of some line before it; for the first such line, the events of
\* the lines before it are delivered, with exactly one error.
C7_AsStated ==
    (rpc = "done" /\ ~readFailed) =>
        LET P == Parsed
        IN  \A i \in 2..Len(file) :
                (/\ AllParse(P, i)
                 /\ \E j \in 1..(i - 1) : P[j].e.Sequence >= P[i].e.Sequence
                 /\ \A m \in 2..(i - 1) : \A j \in 1..(m - 1) :
                        P[j].e.Sequence < P[m].e.Sequence)
                => StoppedAfter(P, i - 1)

\* C7 amended: the running maximum starts at 0, so the first offending line is
\* the first whose sequence is not above every sequence before it and above 0.
\* When the lines before it parse, the replay goroutine (no read failing)
\* delivers their events, one error, and nothing else, and closes both streams.
C7_IntegrityViolationStopsStream ==
    (rpc = "done" /\ ~readFailed) =>
        LET P == Parsed
        IN  \A i \in 1..Len(file) :
                (AllParse(P, i) /\ Ascending(P, i - 1) /\ ~Ascending(P, i))
                => StoppedAfter(P, i - 1)

\* C7 witness: a two-line log whose second line is out of order has been read
C7_Witness ==
    /\ rpc = "done"
    /\ ~readFailed
    /\ Len(file) = 2
    /\ AllParse(Parsed, 2) /\ Ascending(Parsed, 1) /\ ~Ascending(Parsed, 2)
    /\ Len(delivered) = 1

\* the number of tab characters of a line
TabCount(line) == Cardinality({i \in 1..Len(line) : line[i] = TAB})

\* the characters of a line before its first tab
FirstField(line) ==
    SubSeq(line, 1, (CHOOSE j \in 1..(Len(line) + 1) :
                        /\ \A k \in 1..(j - 1) : line[k] # TAB
                        /\ j = Len(line) + 1 \/ line[j] = TAB) - 1)

\* a line that is not of the record shape: fewer than four tab-separated
\* fields, or a first field that is not a number
Malformed(line) ==
    \/ TabCount(line) < 3
    \/ FirstField(line) = <<>>
    \/ \E i \in 1..Len(FirstField(line)) : ~IsDigit(FirstField(line)[i])

RECURSIVE ApplyAll(_, _)
\* the store after the events es, applied in order to m
ApplyAll(m, es) == IF es = <<>> THEN m ELSE ApplyAll(Apply(m, Head(es)), Tail(es))

\* C8: when the first malformed line of the log (a missing field or a
\* non-numeric sequence) follows lines that parse with increasing sequences,
\* replay reports a parse error and the store holds the effect of the lines
\* before that line and of no other.
C8_MalformedLineRejected ==
    (mpc = "ret" /\ logger = "set" /\ ~readFailed) =>
        LET P == Parsed
        IN  \A i \in 1..Len(file) :
                (/\ Malformed(file[i])
                 /\ \A j \in 1..(i - 1) : ~Malformed(file[j])
                 /\ AllParse(P, i - 1) /\ Ascending(P, i - 1))
                => /\ reported = <<"parse">>
                   /\ store = ApplyAll(EmptyStore, EventsOf(P, i - 1))

\* the largest sequence among the events the coordinator received, 0 if none
MaxDelivered ==
    IF delivered = <<>> THEN 0
    ELSE CHOOSE m \in {delivered[k].Sequence : k \in 1..Len(delivered)} :
            \A k \in 1..Len(delivered) : delivered[k].Sequence <= m

\* C9: when the writer is activated the replay goroutine is past its last
\* update of lastSequence, and the first line written after activation carries
\* the largest replayed sequence + 1 (1 when nothing was replayed), above the
\* sequence of every replayed event.
C9_NumberingResumes ==
    wpc # "off" =>
        /\ rpc \in {"closeErr", "closeEv", "done"}
        /\ Len(file) > lenAtRun =>
            /\ LineSequence(file[lenAtRun + 1]) = MaxDelivered + 1
            /\ \A k \in 1..Len(delivered) :
                delivered[k].Sequence < LineSequence(file[lenAtRun + 1])

\* C9 witness: events were replayed before an error, and a line has been
\* written after activation
C9_Witness ==
    /\ wpc # "off"
    /\ Len(delivered) >= 1
    /\ delivered[Len(delivered)].Sequence >= 2
    /\ Len(file) > lenAtRun

\* C10: the queue never holds more than 16 events; a handler at its WritePut
\* call can send exactly when fewer than 16 are queued; and once every request
\* is answered and the queue is empty, the lines written since activation are
\* the events of the answered requests, each once, in submission order.
C10_Backpressure ==
    /\ Len(events) <= QueueCap
    /\ \A h \in Handlers :
        (hpc[h] = "putlog" /\ logger = "set") =>
            ((ENABLED WritePut(h)) <=> Len(events) < QueueCap)
    /\ Settled =>
        /\ Len(submitted) = Len(responses)
        /\ Len(file) - lenAtRun = Len(submitted)
        /\ \A k \in 1..Len(submitted) : file[lenAtRun + k] = WrittenLine(k)

\* C10 witness: a handler is at its WritePut call while 16 events are queued
C10_Witness ==
    /\ Len(events) = QueueCap
    /\ \E h \in Handlers : hpc[h] = "putlog"

\* C11: the error channel never holds more than one error and has room
\* whenever the writer may still fail, so the send of the error never waits;
\* once the writer has stopped after a failed write exactly that one error is
\* pending, the writer stays stopped and no line is appended to the file.
C11_WriteFailureIsFatal ==
    /\ [](/\ Len(errors) <= ErrorCap
          /\ wpc = "run" => errors = <<>>
          /\ wpc = "stopped" => errors = <<"write">>)
    /\ [][wpc = "stopped" => (wpc' = "stopped" /\ file' = file /\ errors' = errors)]_vars

\* C11 witness: the writer stopped after having written a line, with events
\* submitted after the failed one still queued
C11_Witness ==
    /\ wpc = "stopped"
    /\ Len(file) > lenAtRun
    /\ events # <<>>

\* C12: once the writer has suffered a write failure, a handler that is at its
\* call of WritePut or WriteDelete eventually gets past it.
C12_CallersReturnAfterFailure ==
    \A h \in Handlers :
        (wpc = "stopped" /\ hpc[h] \in {"putlog", "dellog"}) ~> (hpc[h] = "idle")

\* the last response written by this step, when the step writes one
Answered(r) == Len(r) > 0 /\ r[Len(r)].req.op \in {"put", "del"}

\* C13: after a write failure the error is eventually received from Err(), and
\* once it has been received no put or delete request is answered with
\* success (the writer has stopped, so the event of such a request is never
\* written).
C13_WriteFailureEscalated ==
    /\ (wpc = "stopped") ~> (errors = <<>>)
    /\ [][(wpc = "stopped" /\ errors = <<>> /\ Len(responses') > Len(responses)
            /\ Answered(responses'))
          => responses'[Len(responses')].code \notin {"200", "201"}]_vars

\* the index in the call history h of the last call on key k, 0 if there is none
LastCall(h, k) ==
    IF \A i \in 1..Len(h) : h[i].Key # k THEN 0
    ELSE CHOOSE i \in 1..Len(h) :
            /\ h[i].Key = k
            /\ \A j \in (i + 1)..Len(h) : h[j].Key # k

\* C14: after any sequence of Put and Delete calls on an empty store, Get(k)
\* returns the value of the last Put on k when the last call on k was a Put,
\* and ErrorNoSuchKey when k was never put or its last call was a Delete.
C14_StoreReflectsLastMutation ==
    \A k \in Keys :
        LET i == LastCall(applied, k)
        IN  IF i # 0 /\ applied[i].EventType = EventPut
            THEN Get(store, k) = [ok |-> TRUE, value |-> applied[i].Value]
            ELSE Get(store, k) = [ok |-> FALSE, value |-> <<>>]

\* C14 witness: a key was put, deleted and put again with another value, and
\* the other key was never put
C14_Witness ==
    /\ Len(applied) = 3
    /\ applied[1].EventType = EventPut
    /\ applied[2].EventType = EventDelete
    /\ applied[3].EventType = EventPut
    /\ applied[1].Key = applied[2].Key /\ applied[2].Key = applied[3].Key
    /\ applied[1].Value # applied[3].Value

\* C15: a call of Delete on a key that is absent from the store returns nil and
\* leaves the whole map as it was (so a second call right after it meets the
\* same store and does the same).
C15_DeleteAbsentIsIdempotent ==
    [][\A k \in Keys :
        (k \notin DOMAIN store /\ applied' = Append(applied, Event(0, EventDelete, k, <<>>)))
        => (store' = store /\ returned' = Append(returned, "nil"))]_vars

\* C15 witness: Delete was called twice in a row on a key absent from a store
\* that holds another key
C15_Witness ==
    /\ Len(applied) = 3
    /\ applied[1].EventType = EventPut
    /\ applied[2].EventType = EventDelete
    /\ applied[3] = applied[2]
    /\ applied[2].Key # applied[1].Key
    /\ Len(returned) = 3

\* the lines of the file have the sequences a writer assigns: above 0 and
\* strictly increasing
LinesAscend ==
    /\ Len(file) >= 1 => LineSequence(file[1]) > 0
    /\ \A j \in 2..Len(file) : LineSequence(file[j - 1]) < LineSequence(file[j])

\* C16: for a log whose lines are all in the record format (as Run writes a Put
\* or a Delete) with strictly increasing sequences, and with no read failing,
\* when the loop is left and Run is about to be called every line's event has
\* been received and applied to the store, in log order, and the error to be
\* returned is nil.
C16_CleanReplayReachesReady ==
    (/\ mpc = "run"
     /\ ~readFailed
     /\ \A j \in 1..Len(file) : file[j] \in RecordLines
     /\ LinesAscend)
    => /\ Len(delivered) = Len(file)
       /\ \A j \in 1..Len(delivered) :
            FormatLine(delivered[j].Sequence, delivered[j]) = file[j]
       /\ store = ApplyAll(EmptyStore, delivered)
       /\ err = "nil"

\* C17: in the first process on an empty log, once put requests with one-word
\* values (served concurrently or not) have all been answered and their events
\* written, replaying the file into an empty store gives the live store.
C17_LiveStoreAgreesWithLog ==
    (/\ gen = 0
     /\ initErr = "nil"
     /\ Settled
     /\ Len(file) = Len(submitted)
     /\ \A i \in 1..Len(submitted) :
            submitted[i].EventType = EventPut /\ PlainValue(submitted[i].Value))
    => ApplyAll(EmptyStore, EventsOf(Parsed, Len(file))) = store

\* C18: within a process, a handler leaves its WritePut (WriteDelete) call
\* having submitted exactly the Put (Delete) event of its request; it comes to
\* that call only by the step that mutates the store; nothing else submits an
\* event; and a delete request whose Get finds the key absent answers 404,
\* leaves the store as it was and submits nothing.
C18_MutationMirroredOnce ==
    [][gen' = gen =>
        /\ \A h \in Handlers :
            /\ (hpc[h] = "putlog" /\ hpc'[h] = "idle") =>
                submitted' = Append(submitted,
                                    Event(0, EventPut, hreq[h].key, hreq[h].value))
            /\ (hpc[h] = "dellog" /\ hpc'[h] = "idle") =>
                submitted' = Append(submitted, Event(0, EventDelete, hreq[h].key, <<>>))
            /\ (hpc[h] # "putlog" /\ hpc'[h] = "putlog") =>
                (hpc[h] = "put" /\ store' = Put(store, hreq[h].key, hreq[h].value))
            /\ (hpc[h] # "dellog" /\ hpc'[h] = "dellog") =>
                (hpc[h] = "delstore" /\ store' = Delete(store, hreq[h].key))
            /\ (hpc[h] = "del" /\ ~Get(store, hreq[h].key).ok /\ hpc'[h] # "del") =>
                /\ hpc'[h] = "idle"
                /\ store' = store
                /\ submitted' = submitted
                /\ responses' = Append(responses,
                                       [code |-> "404", body |-> <<>>, req |-> hreq[h]])
        /\ submitted' # submitted =>
            \E h \in Handlers : hpc[h] \in {"putlog", "dellog"} /\ hpc'[h] = "idle"]_vars

\* C19: a time comes when the loop of initializeTransactionLog has been left
\* and the replay goroutine, if the log could be opened, has come to its end
\* with both streams closed; and the goroutine is never at its scan or at its
\* send of an event after the loop, its only receiver, has been left.
C19_ReplayTerminates ==
    /\ <>(/\ mpc \notin {"boot", "loop"}
          /\ logger = "set" => (rpc = "done" /\ outErrorClosed /\ outEventClosed))
    /\ [](mpc \notin {"boot", "loop"} => rpc \notin {"scan", "send"})

\* C19 witness: replay ended after an event was delivered and an error
\* reported, and the loop has been left
C19_Witness ==
    /\ rpc = "done"
    /\ mpc \in {"run", "ret"}
    /\ Len(delivered) >= 1
    /\ reported # <<>>

\* C20: the scanner has handed out at most one line more than the events the
\* coordinator has received; while an event waits at the send it is that of
\* the last line handed out, and the next line is handed out only when every
\* event so far has been received.
C20_PullDriven ==
    /\ rpos <= Len(delivered) + 1
    /\ rpc = "send" => (rpos = Len(delivered) + 1 /\ rev = Sscanf(file[rpos]).e)
    /\ rpc = "scan" => rpos = Len(delivered)

\* C20 witness: the first event of a two-line log waits at the send while the
\* second line is still unread
C20_Witness ==
    /\ rpc = "send"
    /\ mpc = "loop"
    /\ rpos = 1
    /\ Len(file) = 2
    /\ delivered = <<>>

====
